---------------------------- MODULE Spec2Model ----------------------------
(***************************************************************************)
(* A model of src/power_system.py, class PowerSystem: the bus admittance   *)
(* matrix (lfybus), the Newton-Raphson power flow (lfnewton) and the       *)
(* economic dispatch (dispatch).                                           *)
(*                                                                         *)
(* Numbers.  Admittances, costs and powers are exact rationals <<n, d>>    *)
(* (the real numbers the code's doubles approximate); +infinity is         *)
(* <<1, 0>>.  A non-finite complex value (the result of 1.0 / 0j) is the   *)
(* value CNaN.  Angles are IEEE-754 doubles <<sign, mantissa, exponent>>   *)
(* with the 53-bit mantissa held in four 14-bit limbs, so that the         *)
(* degree/radian conversions round as the code's do.  Voltage magnitudes   *)
(* are counted in steps of 0.01 p.u.                                       *)
(***************************************************************************)
EXTENDS Integers, Sequences, FiniteSets, TLC

\* Python's None, for the fields that otherwise hold arrays, tuples or rationals
None == <<>>

(***************************************************************************)
(* Exact rational arithmetic.                                              *)
(***************************************************************************)
Abs(x) == IF x < 0 THEN -x ELSE x

RECURSIVE GCD(_, _)
GCD(a, b) == IF b = 0 THEN a ELSE GCD(b, a % b)

\* the rational n/d in lowest terms with d >= 0
Rat(n, d) ==
    LET g == GCD(Abs(n), Abs(d))
        s == IF d < 0 THEN -1 ELSE 1
    IN  IF g = 0 THEN <<0, 0>> ELSE <<s * (n \div g), s * (d \div g)>>

RInt(k) == <<k, 1>>
RZero == <<0, 1>>
ROne == <<1, 1>>
RInf == <<1, 0>>

RAdd(a, b) ==
    IF a[2] = b[2] THEN Rat(a[1] + b[1], a[2])
    ELSE Rat(a[1] * b[2] + b[1] * a[2], a[2] * b[2])
RNeg(a) == <<-a[1], a[2]>>
RSub(a, b) == RAdd(a, RNeg(b))
\* cross-cancel first, so that the products stay small
RMul(a, b) ==
    LET g1 == GCD(Abs(a[1]), b[2])
        g2 == GCD(Abs(b[1]), a[2])
        n1 == IF g1 = 0 THEN a[1] ELSE a[1] \div g1
        d2 == IF g1 = 0 THEN b[2] ELSE b[2] \div g1
        n2 == IF g2 = 0 THEN b[1] ELSE b[1] \div g2
        d1 == IF g2 = 0 THEN a[2] ELSE a[2] \div g2
    IN  Rat(n1 * n2, d1 * d2)
RInv(a) == Rat(a[2], a[1])
RDiv(a, b) == RMul(a, RInv(b))
RAbs(a) == <<Abs(a[1]), a[2]>>
RLt(a, b) == a[1] * b[2] < b[1] * a[2]
RLe(a, b) == a[1] * b[2] <= b[1] * a[2]
RGt(a, b) == RLt(b, a)
RGe(a, b) == RLe(b, a)
RSign(a) == IF a[1] > 0 THEN ROne ELSE IF a[1] < 0 THEN RInt(-1) ELSE RZero

RECURSIVE RSum(_)
RSum(s) == IF s = <<>> THEN RZero ELSE RAdd(Head(s), RSum(Tail(s)))

(***************************************************************************)
(* Complex numbers <<re, im>> over the rationals, and the non-finite value *)
(* CNaN that numpy's 1.0 / (0 + 0j) yields (inf + nan j, with a warning    *)
(* and no exception); every operation on it is non-finite again.           *)
(***************************************************************************)
CNaN == <<"nan">>
CZero == <<RZero, RZero>>
CAdd(x, y) == IF x = CNaN \/ y = CNaN THEN CNaN
              ELSE <<RAdd(x[1], y[1]), RAdd(x[2], y[2])>>
CSub(x, y) == IF x = CNaN \/ y = CNaN THEN CNaN
              ELSE <<RSub(x[1], y[1]), RSub(x[2], y[2])>>
\* a complex value divided by a real one
CDivR(x, r) == IF x = CNaN THEN CNaN ELSE <<RDiv(x[1], r), RDiv(x[2], r)>>
\* 1.0 / (R + jX)
CRecip(R, X) ==
    LET den == RAdd(RMul(R, R), RMul(X, X))
    IN  IF den = RZero THEN CNaN
        ELSE <<RDiv(R, den), RDiv(RNeg(X), den)>>

(***************************************************************************)
(* IEEE-754 doubles, for the angles.  A double is <<s, m, e>>: sign s,     *)
(* mantissa m = <<l3, l2, l1, l0>> in base 2^14 with 2^52 <= m < 2^53, and *)
(* value s * m * 2^e; zero has the mantissa <<0, 0, 0, 0>>.  FMul is the   *)
(* correctly rounded product (round to nearest, ties to even).             *)
(***************************************************************************)
DZero == <<1, <<0, 0, 0, 0>>, 0>>

RECURSIVE Log2(_)
Log2(k) == IF k <= 1 THEN 0 ELSE 1 + Log2(k \div 2)
RECURSIVE Pow2(_)
Pow2(k) == IF k = 0 THEN 1 ELSE 2 * Pow2(k - 1)
Limb == Pow2(14)

\* the double of a small integer, |k| < 2048
DInt(k) ==
    IF k = 0 THEN DZero
    ELSE LET p == Log2(Abs(k))
         IN  <<IF k < 0 THEN -1 ELSE 1,
               <<Abs(k) * Pow2(10 - p), 0, 0, 0>>, p - 52>>

FMul(a, b) ==
    IF a[2] = DZero[2] \/ b[2] = DZero[2] THEN DZero
    ELSE
    LET A(i) == a[2][4 - i]
        B(i) == b[2][4 - i]
        c0 == A(0) * B(0)
        c1 == A(0) * B(1) + A(1) * B(0)
        c2 == A(0) * B(2) + A(1) * B(1) + A(2) * B(0)
        c3 == A(0) * B(3) + A(1) * B(2) + A(2) * B(1) + A(3) * B(0)
        c4 == A(1) * B(3) + A(2) * B(2) + A(3) * B(1)
        c5 == A(2) * B(3) + A(3) * B(2)
        c6 == A(3) * B(3)
        \* the exact 106-bit product, limbs p0 (low) .. p7 (high)
        p0 == c0 % Limb
        s1 == c1 + (c0 \div Limb)
        p1 == s1 % Limb
        s2 == c2 + (s1 \div Limb)
        p2 == s2 % Limb
        s3 == c3 + (s2 \div Limb)
        p3 == s3 % Limb
        s4 == c4 + (s3 \div Limb)
        p4 == s4 % Limb
        s5 == c5 + (s4 \div Limb)
        p5 == s5 % Limb
        s6 == c6 + (s5 \div Limb)
        p6 == s6 % Limb
        p7 == s6 \div Limb
        \* the product has 106 bits when bit 105 is set, else 105: drop 42 + t
        t == IF p7 >= 128 THEN 11 ELSE 10
        T == Pow2(t)
        U == Limb \div T
        q0 == (p3 \div T) + (p4 % T) * U
        q1 == (p4 \div T) + (p5 % T) * U
        q2 == (p5 \div T) + (p6 % T) * U
        q3 == (p6 \div T) + (p7 % T) * U
        rhi == p3 % T
        half == T \div 2
        up == rhi > half
              \/ (rhi = half /\ (p0 + p1 + p2 > 0 \/ q0 % 2 = 1))
        r0 == IF up THEN q0 + 1 ELSE q0
        r1 == q1 + (r0 \div Limb)
        r2 == q2 + (r1 \div Limb)
        r3 == q3 + (r2 \div Limb)
        e == a[3] + b[3] + 42 + t
    IN  IF r3 >= 2048
        THEN <<a[1] * b[1], <<1024, 0, 0, 0>>, e + 1>>
        ELSE <<a[1] * b[1], <<r3, r2 % Limb, r1 % Limb, r0 % Limb>>, e>>

\* pi / 180 and 180 / pi as the doubles Python computes
PiOver180 == <<1, <<1143, 13418, 2378, 7481>>, -58>>
C180OverPi == <<1, <<1833, 7617, 10639, 504>>, -47>>
\* pi / 180 * x (line 165) and 180 / pi * x (line 327)
Deg2Rad(x) == FMul(PiOver180, x)
Rad2Deg(x) == FMul(C180OverPi, x)

(***************************************************************************)
(* The state: the fields of one PowerSystem instance, the position of the  *)
(* call in progress and its local variables.                               *)
(***************************************************************************)
VARIABLES
    pc,        \* "idle", or the loop a call is in: "newton", "dispatch"
    lastOp,    \* the last call that ended: its name, and how it ended
    lastOut,   \*   "returned", or the exception it raised
    \* ---- fields of the instance
    busdata,   \* None, or the bus table: a sequence of rows
    linedata,  \* None, or the branch table: a sequence of rows
    nbus,
    nl, nr,    \* branch endpoints, extracted by lfybus
    Ybus,      \* None, or the matrix [1..nbus -> [1..nbus -> complex]]
    Pgg,       \* None, or the generation schedule
    kb, Vm, delta, deltad, Qmax, Pg,     \* per-bus arrays (None before lfnewton)
    maxiter, iter, maxerror, tech,
    B, B0, B00, lambda_,
    \* ---- locals of the call in progress
    converge,  \* lfnewton
    bus0,      \* lfnewton: the bus table as the call found it (history)
    dPdt, cost, mwlimits, wgt, lam, iterp, DelP, PggL, PL,   \* dispatch
    ret,       \* what the last dispatch call returned
    calls,     \* dispatch calls made on the instance
    lastLam    \* the local lambda_ at the end of the latest call that iterated (history)

fields == <<busdata, linedata, nbus, nl, nr, Ybus, Pgg, kb, Vm, delta, deltad,
            Qmax, Pg, maxiter, iter, maxerror, tech, B, B0, B00, lambda_>>
ybusVars == <<linedata, nbus, nl, nr, Ybus>>
newtonVars == <<kb, Vm, delta, deltad, Qmax, Pg, maxiter, iter, maxerror, tech,
                converge, bus0>>
lossVars == <<B, B0, B00>>
dispatchLocals == <<dPdt, cost, mwlimits, wgt, lam, iterp, DelP, PggL, PL, lastLam>>
vars == <<pc, lastOp, lastOut, fields, converge, bus0, dispatchLocals, ret,
          calls>>

\* maxiter as __init__ sets it (line 11)
DefaultMaxiter == 10

\* the instance as __init__ leaves it (lines 7-62); lambda_ is not set there,
\* and line 624 treats a missing lambda_ and None alike
InitFresh ==
    /\ pc = "idle" /\ lastOp = "__init__" /\ lastOut = "returned"
    /\ busdata = None /\ linedata = None /\ nbus = 0
    /\ nl = None /\ nr = None /\ Ybus = None /\ Pgg = None
    /\ kb = None /\ Vm = None /\ delta = None /\ deltad = None
    /\ Qmax = None /\ Pg = None
    /\ maxiter = DefaultMaxiter /\ iter = 0 /\ maxerror = 0 /\ tech = ""
    /\ B = None /\ B0 = None /\ B00 = None /\ lambda_ = None
    /\ converge = 1 /\ bus0 = None
    /\ dPdt = None /\ cost = None /\ mwlimits = None /\ wgt = None
    /\ lam = None /\ iterp = 0 /\ DelP = None /\ PggL = None /\ PL = None
    /\ ret = None /\ calls = 0 /\ lastLam = None

(***************************************************************************)
(* lfybus (lines 74-118).  A branch row is <<from, to, R, X, Bc, tap>>.    *)
(***************************************************************************)
Max(S) == CHOOSE x \in S : \A y \in S : y <= x

\* line 92: a tap <= 0 is rewritten to 1.0
Tap(row) == IF RLe(row[6], RZero) THEN ROne ELSE row[6]
\* lines 95-96: y = 1.0 / (R + jX)
Admittance(row) == CRecip(row[3], row[4])
\* line 84: Bc = j * linedata[:, 4]
Charging(row) == <<RZero, row[5]>>

\* the off-diagonal elements without the mirrored assignment of line 106
RECURSIVE OffDiagonalOneSided(_, _, _)
OffDiagonalOneSided(Y, ld, k) ==
    IF k > Len(ld) THEN Y
    ELSE LET f == ld[k][1]
             t == ld[k][2]
             Y1 == [Y EXCEPT ![f][t] = CSub(@, CDivR(Admittance(ld[k]), Tap(ld[k])))]
         IN  OffDiagonalOneSided(Y1, ld, k + 1)

\* lines 102-106: the off-diagonal elements, branch k onwards
RECURSIVE OffDiagonal(_, _, _)
OffDiagonal(Y, ld, k) ==
    IF k > Len(ld) THEN Y
    ELSE LET f == ld[k][1]
             t == ld[k][2]
             Y1 == [Y EXCEPT ![f][t] = CSub(@, CDivR(Admittance(ld[k]), Tap(ld[k])))]
             Y2 == [Y1 EXCEPT ![t][f] = Y1[f][t]]
         IN  OffDiagonal(Y2, ld, k + 1)

\* lines 111-115: what the branches k onwards add to the diagonal element of bus n
RECURSIVE DiagonalOf(_, _, _)
DiagonalOf(n, ld, k) ==
    IF k > Len(ld) THEN CZero
    ELSE LET a == Tap(ld[k])
             here == IF ld[k][1] = n
                       THEN CAdd(CDivR(Admittance(ld[k]), RMul(a, a)), Charging(ld[k]))
                     ELSE IF ld[k][2] = n
                       THEN CAdd(Admittance(ld[k]), Charging(ld[k]))
                     ELSE CZero
         IN  CAdd(here, DiagonalOf(n, ld, k + 1))

\* lines 89, 99-115: the matrix lfybus builds from the branch table
YbusOf(ld) ==
    LET N == Max({ld[k][1] : k \in 1..Len(ld)} \cup {ld[k][2] : k \in 1..Len(ld)})
        Z == [i \in 1..N |-> [j \in 1..N |-> CZero]]
        Off == OffDiagonal(Z, ld, 1)
    IN  [i \in 1..N |-> [j \in 1..N |->
            IF i = j THEN CAdd(Off[i][i], DiagonalOf(i, ld, 1)) ELSE Off[i][j]]]

\* load_data(linedata=ld) (lines 70-72)
LoadLines(ld) ==
    /\ pc = "idle"
    /\ linedata' = ld
    /\ lastOp' = "load_data" /\ lastOut' = "returned"
    /\ UNCHANGED <<pc, busdata, nbus, nl, nr, Ybus, Pgg, newtonVars, lossVars,
                   lambda_, dispatchLocals, ret, calls>>

\* lfybus() on a loaded, non-empty branch table
LfYbus ==
    /\ pc = "idle"
    /\ linedata # None /\ Len(linedata) > 0
    /\ nl' = [k \in 1..Len(linedata) |-> linedata[k][1]]
    /\ nr' = [k \in 1..Len(linedata) |-> linedata[k][2]]
    /\ Ybus' = YbusOf(linedata)
    /\ nbus' = Len(Ybus')
    /\ Pgg' = None
    /\ lastOp' = "lfybus" /\ lastOut' = "returned"
    /\ UNCHANGED <<pc, busdata, linedata, newtonVars, lossVars, lambda_,
                   dispatchLocals, ret, calls>>

\* ---- the branch tables the model draws
MaxBusY == 2
MaxBranches == 2
\* R + jX is 0 (a zero-impedance branch) or 1 + j; the tap is 0 (unset) or 2
ImpedanceValues == {RZero, ROne}
ChargingValues == {ROne}
TapValues == {RZero, RInt(2)}
BranchRows == {<<f, t, z, z, c, a>> : f \in 1..MaxBusY, t \in 1..MaxBusY,
                   z \in ImpedanceValues, c \in ChargingValues, a \in TapValues}
RECURSIVE SeqsUpTo(_, _)
SeqsUpTo(S, n) ==
    IF n = 0 THEN {<<>>}
    ELSE LET shorter == SeqsUpTo(S, n - 1)
         IN  shorter \cup {Append(s, x) : s \in {t \in shorter : Len(t) = n - 1}, x \in S}
LineTables == {ld \in SeqsUpTo(BranchRows, MaxBranches) : Len(ld) > 0}

NextYbus ==
    \/ linedata = None /\ \E ld \in LineTables : LoadLines(ld)
    \/ Ybus = None /\ LfYbus
SpecYbus == InitFresh /\ [][NextYbus]_vars

(***************************************************************************)
(* lfnewton (lines 120-360).  A bus row is                                 *)
(*     <<number, kind, Vm, angle, Pg, Qmax>>                               *)
(* with Vm in steps of 0.01, the angle a double, Pg a rational and Qmax an *)
(* integer.  The other columns (Pd, Qd, Qg, Qmin, Qsh) enter only the      *)
(* mismatch vector DC and the injections P, Q, which the model draws: the  *)
(* mismatches, the corrections DX and the side of its limits on which a PV *)
(* bus's Qgc falls are inputs of every iteration.                          *)
(***************************************************************************)
Slack == 1
PV == 2
PQ == 0

\* accuracy (line 10), and maxerror as line 191 sets it, in steps of 0.001
Accuracy == 1
InitialMaxerror == 1000

\* lines 146-159: the last row of the table that names bus n (0: none does)
RowOf(bd, n) ==
    LET ks == {k \in 1..Len(bd) : bd[k][1] = n}
    IN  IF ks = {} THEN 0 ELSE Max(ks)
\* lines 150, 158: kb and Qmax of bus n
KindOf(bd, n) == IF RowOf(bd, n) = 0 THEN 0 ELSE bd[RowOf(bd, n)][2]
QmaxOf(bd, n) == IF RowOf(bd, n) = 0 THEN 0 ELSE bd[RowOf(bd, n)][6]
PgOf(bd, n) == IF RowOf(bd, n) = 0 THEN RZero ELSE bd[RowOf(bd, n)][5]
\* lines 151, 161-162: Vm of bus n; a value <= 0 becomes 1.0
VmOf(bd, n) ==
    IF RowOf(bd, n) = 0 THEN 0
    ELSE IF bd[RowOf(bd, n)][3] <= 0 THEN 100 ELSE bd[RowOf(bd, n)][3]
\* lines 152, 161-165: delta of bus n; converted to radians only when Vm > 0
DeltaOf(bd, n) ==
    IF RowOf(bd, n) = 0 THEN DZero
    ELSE IF bd[RowOf(bd, n)][3] <= 0 THEN bd[RowOf(bd, n)][4]
    ELSE Deg2Rad(bd[RowOf(bd, n)][4])

\* lines 171-181, with the code's 0-based bus index i
Nss(k, i) == Cardinality({j \in 0..i : k[j + 1] = Slack})
Ngs(k, i) == Cardinality({j \in 0..i : k[j + 1] = PV})
NsOf(k) == Cardinality({j \in 1..Len(k) : k[j] = Slack})
NgOf(k) == Cardinality({j \in 1..Len(k) : k[j] = PV})
\* line 188
MOf(k) == 2 * Len(k) - NgOf(k) - 2 * NsOf(k)
\* lm without the shift by the number of slack buses
LMNoSlackShift(k, i) == Len(k) + i - Ngs(k, i) - Nss(k, i)
\* lines 208-209, 302-303
NN(k, i) == i - Nss(k, i)
LM(k, i) == Len(k) + i - Ngs(k, i) - Nss(k, i) - NsOf(k)

\* line 196
LoopGoesOn == maxerror >= Accuracy /\ iter <= maxiter

\* lfnewton() up to the loop (lines 122-193)
NewtonStart ==
    /\ pc = "idle"
    /\ busdata # None
    /\ bus0' = busdata
    /\ kb' = [n \in 1..nbus |-> KindOf(busdata, n)]
    /\ Vm' = [n \in 1..nbus |-> VmOf(busdata, n)]
    /\ delta' = [n \in 1..nbus |-> DeltaOf(busdata, n)]
    /\ deltad' = [n \in 1..nbus |-> DZero]
    /\ Qmax' = [n \in 1..nbus |-> QmaxOf(busdata, n)]
    /\ Pg' = [n \in 1..nbus |-> PgOf(busdata, n)]
    /\ IF Ybus = None
       THEN \* line 184: abs(None) raises
            /\ pc' = "idle" /\ lastOp' = "lfnewton" /\ lastOut' = "TypeError"
            /\ UNCHANGED <<maxerror, converge, iter>>
       ELSE /\ pc' = "newton"
            /\ maxerror' = InitialMaxerror /\ converge' = 1 /\ iter' = 0
            /\ UNCHANGED <<lastOp, lastOut>>
    /\ UNCHANGED <<busdata, ybusVars, Pgg, maxiter, tech, lossVars, lambda_,
                   dispatchLocals, ret, calls>>

\* ---- what the model draws for one iteration
\* max(abs(DC)), in steps of 0.001: below, at and above the accuracy
MismatchValues == {0, 1, 2}
\* an entry of DX: none, or a step down or up
DXValues == {-1, 0, 1}
\* Qgc of a PV bus: below Qmin, within the limits, above Qmax
QgcSides == {-1, 0, 1}
\* delta[n] + DX[nn] for a non-zero DX[nn] is some other double
RadSamples == <<Deg2Rad(DInt(-6)), Deg2Rad(DInt(5))>>
RadAdd(x, dx) == IF dx = 0 THEN x ELSE RadSamples[(dx + 3) \div 2]
\* the model follows Vm of a PQ bus while it is within VmSpan steps of its first value
VmSpan == 1

\* the reactive-limit check with a window that closes one iteration late
NudgeLateWindow(k, qm, it, v, n, q) ==
    IF k[n] = PV /\ qm[n] # 0 /\ it <= 8 /\ it > 2
    THEN (IF q = -1 THEN v[n] + 1 ELSE IF q = 1 THEN v[n] - 1 ELSE v[n])
    ELSE v[n]

\* lines 264-274: Vm of bus n after the reactive-limit check of iteration it, with
\* Qgc on side q of its limits
Nudge(k, qm, it, v, n, q) ==
    IF k[n] = PV /\ qm[n] # 0 /\ it <= 7 /\ it > 2
    THEN (IF q = -1 THEN v[n] + 1 ELSE IF q = 1 THEN v[n] - 1 ELSE v[n])
    ELSE v[n]

\* lines 305-306: delta of bus n after the correction DX
DeltaUpdate(k, d, DX, n) ==
    LET nn == NN(k, n - 1)
    IN  IF k[n] # Slack /\ nn >= 0 /\ nn < Len(DX) THEN RadAdd(d[n], DX[nn + 1])
        ELSE d[n]
\* lines 308-309: Vm of bus n after the correction DX
VmUpdate(k, v, DX, n) ==
    LET lm == LM(k, n - 1)
    IN  IF k[n] = PQ /\ lm >= 0 /\ lm < Len(DX) THEN v[n] + DX[lm + 1]
        ELSE v[n]

\* one pass of the loop (lines 196-317)
NewtonIter(side, DX, err) ==
    /\ pc = "newton"
    /\ LoopGoesOn
    /\ iter' = iter + 1
    /\ LET nudgedVm == [n \in 1..nbus |-> Nudge(kb, Qmax, iter', Vm, n, side[n])]
       IN  /\ Vm' = [n \in 1..nbus |-> VmUpdate(kb, nudgedVm, DX, n)]
           /\ \A n \in 1..nbus : kb[n] = PQ => Abs(Vm'[n] - VmOf(bus0, n)) <= VmSpan
    /\ delta' = [n \in 1..nbus |-> DeltaUpdate(kb, delta, DX, n)]
    /\ IF Len(DX) = 0
       THEN \* line 312: max of an empty array raises
            /\ pc' = "idle" /\ lastOp' = "lfnewton" /\ lastOut' = "ValueError"
            /\ UNCHANGED <<maxerror, converge>>
       ELSE /\ maxerror' = err
            /\ converge' = IF iter' = maxiter /\ maxerror' > Accuracy THEN 0
                           ELSE converge
            /\ UNCHANGED <<pc, lastOp, lastOut>>
    /\ UNCHANGED <<busdata, bus0, ybusVars, Pgg, kb, deltad, Qmax, Pg, maxiter, tech,
                   lossVars, lambda_, dispatchLocals, ret, calls>>

\* lines 334-347: Pgg, the generation of the slack and PV buses in bus order
RECURSIVE GenList(_, _, _)
GenList(k, pg, n) ==
    IF n > Len(k) THEN <<>>
    ELSE IF k[n] = Slack \/ k[n] = PV THEN <<pg[n]>> \o GenList(k, pg, n + 1)
    ELSE GenList(k, pg, n + 1)

\* lines 359-360: the table with column 2 set to Vm and column 3 to deltad, row by row
WriteBack(bd, v, dd) ==
    [r \in 1..Len(bd) |-> <<bd[r][1], bd[r][2], v[r], dd[r], bd[r][5], bd[r][6]>>]

\* the end of lfnewton (lines 319-360); slackPg is Pg of the slack buses (line 338)
NewtonFinish(slackPg) ==
    /\ pc = "newton"
    /\ ~LoopGoesOn
    /\ tech' = IF converge # 1 THEN "ITERATIVE SOLUTION DID NOT CONVERGE"
               ELSE "Power Flow Solution by Newton-Raphson Method"
    /\ deltad' = [n \in 1..nbus |-> Rad2Deg(delta[n])]
    /\ Pg' = [n \in 1..nbus |-> IF kb[n] = Slack THEN slackPg ELSE Pg[n]]
    /\ Pgg' = GenList(kb, Pg', 1)
    /\ IF Len(busdata) = nbus
       THEN /\ busdata' = WriteBack(busdata, Vm, deltad')
            /\ lastOut' = "returned"
       ELSE \* line 359: the shapes do not match
            /\ busdata' = busdata
            /\ lastOut' = "ValueError"
    /\ pc' = "idle" /\ lastOp' = "lfnewton"
    /\ UNCHANGED <<bus0, ybusVars, kb, Vm, delta, Qmax, maxiter, iter, maxerror,
                   converge, lossVars, lambda_, dispatchLocals, ret, calls>>

\* load_data(busdata=bd, linedata=ld) (lines 64-72); ld may be None
LoadData(bd, ld) ==
    /\ pc = "idle"
    /\ busdata' = bd /\ nbus' = Len(bd)
    /\ linedata' = IF ld = None THEN linedata ELSE ld
    /\ lastOp' = "load_data" /\ lastOut' = "returned"
    /\ UNCHANGED <<pc, nl, nr, Ybus, Pgg, newtonVars, lossVars, lambda_,
                   dispatchLocals, ret, calls>>

\* the caller sets the option maxiter (a public field)
SetMaxiter(v) ==
    /\ pc = "idle"
    /\ maxiter' = v
    /\ lastOp' = "set_maxiter" /\ lastOut' = "returned"
    /\ UNCHANGED <<pc, busdata, ybusVars, Pgg, kb, Vm, delta, deltad, Qmax, Pg, iter,
                   maxerror, tech, converge, bus0, lossVars, lambda_, dispatchLocals,
                   ret, calls>>

\* ---- the cases the model draws for lfnewton
MaxBusN == 2
MaxMaxiter == 2
MaxiterValues == (0..MaxMaxiter) \cup {DefaultMaxiter}
\* a row's <<Vm, angle, Pg, Qmax>>: a set voltage with a reactive limit, and an
\* unset one without
BusRowValues == {<<105, DInt(3), ROne, 1>>, <<0, DInt(3), ROne, 0>>}
Kinds == {Slack, PV, PQ}
Perms(N) == {p \in [1..N -> 1..N] : \A i, j \in 1..N : p[i] = p[j] => i = j}
\* every table of N rows, one row per bus and one slack bus among them, in every
\* order of the rows
KindsOf(N) == {k \in [1..N -> Kinds] : Cardinality({n \in 1..N : k[n] = Slack}) = 1}
BusTablesOf(N) ==
    {[r \in 1..N |-> <<p[r], k[p[r]], v[r][1], v[r][2], v[r][3], v[r][4]>>] :
        p \in Perms(N), k \in KindsOf(N), v \in [1..N -> BusRowValues]}
BusTables == UNION {BusTablesOf(N) : N \in 1..MaxBusN}
\* a chain of branches 1-2, 2-3, ... (one bus: a branch from the bus to itself),
\* alone and with a second branch parallel to the last one, listed the other way round
Branch(f, t) == <<f, t, ROne, ROne, ROne, RZero>>
Chain(N) == IF N = 1 THEN <<Branch(1, 1)>> ELSE [k \in 1..(N - 1) |-> Branch(k, k + 1)]
NewtonLines(N) ==
    {Chain(N), Append(Chain(N), Branch(N, IF N = 1 THEN 1 ELSE N - 1)), None}

\* Qgc is computed for the PV buses only (line 264)
SidesOf(k) == {f \in [1..Len(k) -> QgcSides] : \A n \in 1..Len(k) : k[n] # PV => f[n] = 0}

NextNewton ==
    \/ lastOp = "__init__" /\ \E v \in MaxiterValues : SetMaxiter(v)
    \/ busdata = None /\ \E bd \in BusTables : \E ld \in NewtonLines(Len(bd)) :
           LoadData(bd, ld)
    \/ Ybus = None /\ kb = None /\ LfYbus
    \/ kb = None /\ NewtonStart
    \/ pc = "newton" /\ \E side \in SidesOf(kb) :
           \E DX \in [1..MOf(kb) -> DXValues] :
               \E err \in MismatchValues : NewtonIter(side, DX, err)
    \/ pc = "newton" /\ \E slackPg \in {RZero, ROne} : NewtonFinish(slackPg)
SpecNewton == InitFresh /\ [][NextNewton]_vars

\* ---- the cases the model draws for the index maps of lfnewton: every assignment
\* of kinds to the buses of a chain, rows in bus order
MaxBusI == 3
KindTable(k) == [n \in 1..Len(k) |-> <<n, k[n], 100, DZero, ROne, 0>>]
KindTables == UNION {{KindTable(k) : k \in [1..N -> Kinds]} : N \in 1..MaxBusI}

NextIndex ==
    \/ busdata = None /\ \E bd \in KindTables : LoadData(bd, Chain(Len(bd)))
    \/ Ybus = None /\ kb = None /\ LfYbus
    \/ kb = None /\ NewtonStart
    \/ pc = "newton" /\ iter = 0 /\ \E DX \in [1..MOf(kb) -> {-1, 1}] :
           NewtonIter([n \in 1..nbus |-> 0], DX, 0)
SpecIndex == InitFresh /\ [][NextIndex]_vars

(***************************************************************************)
(* dispatch (lines 574-747).  A cost row is <<alpha, beta, gamma>>, a      *)
(* limits row <<Pmin, Pmax>>.  bloss is not modelled, so the loss          *)
(* coefficients are unset or the zeros dispatch itself sets (lines         *)
(* 588-595): B has no off-diagonal terms, and E is a diagonal matrix.      *)
(*                                                                         *)
(* The local lambda_ is <<r, u, d>>, the number r * 1.05^u * 0.95^d: the   *)
(* direct adjustments of lines 716 and 718 are counted, not multiplied     *)
(* out.                                                                    *)
(***************************************************************************)
\* basemva (line 9)
Basemva == 100
\* the cap on the outer iterations (line 636), and DelP before the first (line 631)
MaxIterp == 200
InitialDelP == 10
\* the residual below which the loop ends (line 636) and under which the limits
\* are enforced (lines 677, 680)
ResidualTol == Rat(1, 10000)
ClampTol == Rat(1, 1000)

Zeros(n) == [k \in 1..n |-> RZero]
\* line 586: no lower bound above 0, no upper bound
DefaultLimits(n) == [k \in 1..n |-> <<RZero, RInf>>]
\* np.max of a vector
RECURSIVE RMax(_)
RMax(s) == IF Len(s) = 1 THEN s[1]
           ELSE LET m == RMax(Tail(s)) IN IF RGt(s[1], m) THEN s[1] ELSE m
\* line 625: np.max(beta)
MaxBeta(c) == RMax([k \in 1..Len(c) |-> c[k][2]])

\* x > 10^-k, for the guards of lines 699 and 707
RECURSIVE GtPow10(_, _)
GtPow10(x, k) ==
    IF RLe(x, RZero) THEN FALSE
    ELSE IF k = 0 THEN RGt(x, ROne)
    ELSE IF RGe(x, ROne) THEN TRUE
    ELSE GtPow10(RMul(x, RInt(10)), k - 1)

Lam(r) == <<r, 0, 0>>
\* no direct adjustment is counted in l: l is the number l[1]
LamPlain(l) == l[2] = 0 /\ l[3] = 0
\* x / lambda_ and x * lambda_
OverLam(x, l) == IF x = RZero THEN RZero ELSE RDiv(x, l[1])
TimesLam(x, l) == IF x = RZero THEN RZero ELSE RMul(x, l[1])

\* line 598: a diagonal element of Bu
Bu(b, k) == RDiv(b[k][k], RInt(Basemva))
\* lines 643-649: the diagonal of E and the vector Dx
Ekk(c, b, w, l, k) ==
    IF w[k] = 1 THEN RAdd(OverLam(c[k][3], l), Bu(b, k)) ELSE ROne
Dxk(c, b0, w, l, k) ==
    IF w[k] = 1
    THEN RMul(Rat(1, 2), RSub(RSub(ROne, b0[k]), OverLam(c[k][2], l)))
    ELSE RZero
\* lines 656-660: E is diagonal; with a zero on the diagonal solve raises and the
\* pseudo-inverse has a zero there
PPk(c, b, b0, w, l, k) ==
    IF Ekk(c, b, w, l, k) = RZero THEN RZero
    ELSE RDiv(Dxk(c, b0, w, l, k), Ekk(c, b, w, l, k))
\* the solution copied to every generator, the clamped ones included
SolveAll(c, b, b0, w, l, p) ==
    [k \in 1..Len(c) |-> PPk(c, b, b0, w, l, k)]

\* lines 663-665
Solve(c, b, b0, w, l, p) ==
    [k \in 1..Len(c) |-> IF w[k] = 1 THEN PPk(c, b, b0, w, l, k) ELSE p[k]]

\* lines 670, 685: PL
Loss(b, b0, b00, p) ==
    RAdd(RAdd(RSum([k \in 1..Len(p) |-> RMul(Bu(b, k), RMul(p[k], p[k]))]),
              RSum([k \in 1..Len(p) |-> RMul(b0[k], p[k])])),
         RMul(RInt(Basemva), b00))
\* lines 673, 686: DelP
Residual(pdt, b, b0, b00, p) == RSub(RAdd(pdt, Loss(b, b0, b00, p)), RSum(p))

\* lines 676-682: is generator k moved to a limit, given DelP
AboveMax(lim, p, delp, k) == RGt(p[k], lim[k][2]) /\ RLe(RAbs(delp), ClampTol)
BelowMin(lim, p, delp, k) == RLt(p[k], lim[k][1]) /\ RLe(RAbs(delp), ClampTol)
Clamped(lim, p, delp) ==
    [k \in 1..Len(p) |-> IF AboveMax(lim, p, delp, k) THEN lim[k][2]
                         ELSE IF BelowMin(lim, p, delp, k) THEN lim[k][1]
                         ELSE p[k]]
Weights(lim, w, p, delp) ==
    [k \in 1..Len(p) |-> IF AboveMax(lim, p, delp, k) \/ BelowMin(lim, p, delp, k)
                         THEN 0 ELSE w[k]]

\* lines 692-702: grad[k]; the other generators' terms BP are zero
Grad(c, b, b0, w, l, k) ==
    IF w[k] = 1
    THEN LET base == RAdd(c[k][3], TimesLam(Bu(b, k), l))
             denominator == RMul(RInt(2), RMul(base, base))
         IN  IF GtPow10(denominator, 10)
             THEN RDiv(RAdd(RMul(c[k][3], RSub(ROne, b0[k])),
                            RMul(Bu(b, k), c[k][2])), denominator)
             ELSE RZero
    ELSE RZero
\* line 704
SumGrad(c, b, b0, w, l) ==
    RSum([k \in 1..Len(c) |-> RMul(RInt(w[k]), Grad(c, b, b0, w, l, k))])

\* lines 707-718: lambda_ after the update
NextLambda(l, delp, sumgrad) ==
    IF GtPow10(RAbs(sumgrad), 6)
    THEN LET Delambda == RDiv(delp, sumgrad)
             half == RMul(Rat(1, 2), l[1])
         IN  Lam(RAdd(l[1], IF RGt(RAbs(Delambda), half)
                            THEN RMul(half, RSign(Delambda))
                            ELSE Delambda))
    ELSE IF RGt(delp, RZero) THEN <<l[1], l[2] + 1, l[3]>>
    ELSE <<l[1], l[2], l[3] + 1>>

\* lines 624-627: the lambda_ a call starts from
StartLambdaCold(stored, c) == Lam(MaxBeta(c))
StartLambda(stored, c) == IF stored = None THEN Lam(MaxBeta(c)) ELSE stored

\* line 636
OuterLoopGoesOn == RGe(RAbs(DelP), ResidualTol) /\ iterp < MaxIterp

\* lines 729-737: rows r onwards of the table get the schedule of the buses that kb
\* marks as generators, ng counting those served
RECURSIVE SyncPg(_, _, _, _, _)
SyncPg(bd, k, p, r, ng) ==
    IF r > Len(bd) THEN bd
    ELSE LET idx == bd[r][1] - 1
         IN  IF k # None /\ idx < Len(k) /\ k[idx + 1] # 0 /\ ng < Len(p)
             THEN SyncPg([bd EXCEPT ![r][5] = p[ng + 1]], k, p, r + 1, ng + 1)
             ELSE SyncPg(bd, k, p, r + 1, ng)

\* the model follows lambda_ as a number while its numerator and denominator stay
\* within MaxMagnitude
MaxMagnitude == 1000
Within(r) == Abs(r[1]) <= MaxMagnitude /\ r[2] <= MaxMagnitude

\* dispatch(Pdt, cost=c, mwlimits=lim) up to the loop (lines 574-634)
DispatchBegin(Pdt, c, lim) ==
    /\ pc = "idle"
    /\ calls' = calls + 1
    /\ dPdt' = Pdt /\ cost' = c
    /\ IF c = None
       THEN \* lines 579-581
            /\ mwlimits' = lim
            /\ pc' = "idle" /\ lastOp' = "dispatch" /\ lastOut' = "returned"
            /\ ret' = None
            /\ UNCHANGED <<lossVars, lambda_, wgt, lam, iterp, DelP, PggL, PL>>
       ELSE LET ngg == Len(c)
                limits == IF lim = None THEN DefaultLimits(ngg) ELSE lim
                sumPmax == RSum([k \in 1..ngg |-> limits[k][2]])
                sumPmin == RSum([k \in 1..ngg |-> limits[k][1]])
            IN  /\ mwlimits' = limits
                /\ B' = IF B = None THEN [i \in 1..ngg |-> Zeros(ngg)] ELSE B
                /\ B0' = IF B0 = None THEN Zeros(ngg) ELSE B0
                /\ B00' = IF B00 = None THEN RZero ELSE B00
                /\ IF RGt(Pdt, sumPmax) \/ RLt(Pdt, sumPmin)
                   THEN \* lines 611-618
                        /\ pc' = "idle" /\ lastOp' = "dispatch"
                        /\ lastOut' = "returned"
                        /\ ret' = None
                        /\ UNCHANGED <<lambda_, wgt, lam, iterp, DelP, PggL, PL>>
                   ELSE /\ wgt' = [k \in 1..ngg |-> 1]
                        /\ lambda_' = StartLambda(lambda_, c)
                        /\ lam' = lambda_'
                        /\ iterp' = 0
                        /\ DelP' = RInt(InitialDelP)
                        /\ PggL' = Zeros(ngg)
                        /\ pc' = "dispatch"
                        /\ UNCHANGED <<lastOp, lastOut, ret, PL>>
    /\ UNCHANGED <<busdata, ybusVars, Pgg, newtonVars, lastLam>>

\* one pass of the outer loop (lines 636-718)
DispatchIter ==
    /\ pc = "dispatch"
    /\ OuterLoopGoesOn
    \* a generator whose E[k, k] depends on lambda_ needs lambda_ as a number
    /\ \A k \in 1..Len(cost) :
           (wgt[k] = 1 /\ Ekk(cost, B, wgt, lam, k) # RZero) => LamPlain(lam)
    /\ iterp' = iterp + 1
    /\ LET solved == Solve(cost, B, B0, wgt, lam, PggL)
           delp1 == Residual(dPdt, B, B0, B00, solved)
           pgg == Clamped(mwlimits, solved, delp1)
           w == Weights(mwlimits, wgt, solved, delp1)
       IN  /\ PggL' = pgg
           /\ wgt' = w
           /\ PL' = Loss(B, B0, B00, pgg)
           /\ DelP' = Residual(dPdt, B, B0, B00, pgg)
           /\ lam' = NextLambda(lam, DelP', SumGrad(cost, B, B0, w, lam))
    /\ Within(lam'[1])
    /\ UNCHANGED <<pc, lastOp, lastOut, busdata, ybusVars, Pgg, newtonVars, lossVars,
                   lambda_, dPdt, cost, mwlimits, ret, calls, lastLam>>

\* the end of dispatch (lines 720-747)
DispatchEnd ==
    /\ pc = "dispatch"
    /\ ~OuterLoopGoesOn
    /\ lambda_' = lam
    /\ Pgg' = PggL
    /\ busdata' = IF busdata = None THEN busdata ELSE SyncPg(busdata, kb, PggL, 1, 0)
    /\ ret' = <<PggL, lam, PL>>
    /\ lastLam' = lam
    /\ pc' = "idle" /\ lastOp' = "dispatch" /\ lastOut' = "returned"
    /\ UNCHANGED <<linedata, nbus, nl, nr, Ybus, newtonVars, lossVars, dPdt, cost,
                   mwlimits, wgt, lam, iterp, DelP, PggL, PL, calls>>

\* ---- the cases the model draws for dispatch
MaxCalls == 2
\* generators <<alpha, beta, gamma>>: two with a quadratic cost, one with a linear cost
GenCheap == <<RZero, ROne, Rat(1, 2)>>
GenDear == <<RZero, RInt(9), Rat(1, 2)>>
GenLinear == <<RZero, RInt(7), RZero>>
CostValues == {<<GenLinear>>, <<GenCheap>>, <<GenCheap, GenDear>>, <<GenLinear, GenCheap>>}
LimitRows == {<<RZero, RInt(5)>>, <<RInt(10), RInt(100)>>}
LimitValues(n) == [1..n -> LimitRows] \cup {None}
PdtValues == {RInt(4), RInt(50)}
\* the table of the instance that lfnewton solves before dispatch is called
SolvedTable == << <<1, Slack, 105, DInt(3), ROne, 1>>, <<2, PV, 105, DInt(3), ROne, 1>> >>
\* a call's cost matrix has as many rows as the loss coefficients the instance holds
Fits(c) == c = None \/ B = None \/ Len(c) = Len(B)
\* the instance a dispatch call may find: new, loaded, or solved by lfnewton
Callable == pc = "idle" /\ (Ybus = None \/ kb # None)

NextDispatch ==
    \/ calls = 0 /\ busdata = None /\ LoadData(SolvedTable, Chain(2))
    \/ calls = 0 /\ busdata # None /\ Ybus = None /\ LfYbus
    \/ calls = 0 /\ Ybus # None /\ kb = None /\ NewtonStart
    \/ pc = "newton" /\ NewtonIter(<<0, 0>>, <<0>>, 0)
    \/ pc = "newton" /\ NewtonFinish(ROne)
    \/ Callable /\ calls < MaxCalls /\ \E c \in CostValues \cup {None} :
           Fits(c) /\ \E lim \in LimitValues(IF c = None THEN 1 ELSE Len(c)) :
               \E Pdt \in PdtValues : DispatchBegin(Pdt, c, lim)
    \/ DispatchIter
    \/ DispatchEnd
SpecDispatch == InitFresh /\ [][NextDispatch]_vars

(***************************************************************************)
(* Properties of lfybus, checked under SpecYbus.                           *)
(***************************************************************************)
ZeroImpedance(row) == row[3] = RZero /\ row[4] = RZero
HasZeroImpedance(ld) == \E k \in 1..Len(ld) : ZeroImpedance(ld[k])

\* C5: lfybus rejects a branch table that holds a branch with R = 0 and X = 0: the
\* call ends in an error and produces no Ybus.
C5_ZeroImpedanceRejected ==
    (lastOp = "lfybus" /\ HasZeroImpedance(linedata))
        => (lastOut # "returned" /\ Ybus = None)

\* C6: after lfybus on any branch table, whatever its length, its taps and the
\* orientation of its parallel branches, Ybus[i, j] and Ybus[j, i] hold the same
\* element, for all buses i # j.
C6_OffDiagonalSymmetric ==
    lastOp = "lfybus" =>
        \A i, j \in 1..nbus : i # j => Ybus[i][j] = Ybus[j][i]

\* C6, its case: two parallel branches between two buses, listed in opposite
\* orientations and with different taps
C6_ParallelBothWays ==
    /\ lastOp = "lfybus"
    /\ Len(linedata) = 2
    /\ linedata[1][1] # linedata[1][2]
    /\ linedata[2][1] = linedata[1][2] /\ linedata[2][2] = linedata[1][1]
    /\ Tap(linedata[1]) # Tap(linedata[2])
    /\ ~HasZeroImpedance(linedata)
    /\ Ybus[1][2] # CZero

(***************************************************************************)
(* Properties of lfnewton, checked under SpecNewton.                       *)
(***************************************************************************)
NotConverged == "ITERATIVE SOLUTION DID NOT CONVERGE"
NewtonReturned == pc = "idle" /\ lastOp = "lfnewton" /\ lastOut = "returned"

\* C2: when lfnewton stops at the iteration cap with the last maxerror not below
\* the accuracy, the run is reported as not converged, for every maxiter >= 0.
C2_CapReportedNotConverged ==
    (NewtonReturned /\ iter > maxiter /\ maxerror >= Accuracy) => tech = NotConverged

\* C7: a slack bus whose ingested Vm is > 0 keeps its Vm and its angle: after the
\* solve the arrays, and the row of the bus in the table, hold the ingested values.
C7_SlackRetained ==
    NewtonReturned =>
        \A n \in 1..nbus :
            LET r == RowOf(bus0, n)
            IN  (r # 0 /\ bus0[r][2] = Slack /\ bus0[r][3] > 0) =>
                    /\ Vm[n] = bus0[r][3]
                    /\ delta[n] = Deg2Rad(bus0[r][4])
                    /\ deltad[n] = bus0[r][4]
                    /\ busdata[r][3] = bus0[r][3]
                    /\ busdata[r][4] = bus0[r][4]

\* C8: on a network of a single slack bus, lfnewton finishes with iter = 0.
C8_SingleSlackNoIteration ==
    (pc = "idle" /\ lastOp = "lfnewton" /\ Len(bus0) = 1 /\ bus0[1][2] = Slack)
        => (lastOut = "returned" /\ iter = 0)

\* C10: at the start of the first iteration, every bus whose row carried Vm <= 0
\* has Vm = 1.0 and delta = 0.
C10_UnsetVoltageReset ==
    (pc = "newton" /\ iter = 0) =>
        \A n \in 1..nbus :
            LET r == RowOf(bus0, n)
            IN  (r # 0 /\ bus0[r][3] <= 0) => (Vm[n] = 100 /\ delta[n] = DZero)

\* the iterations in which line 269 lets a PV bus be nudged, and the number of them
NudgeWindow == 3..7
NudgeCount == Cardinality(NudgeWindow)

OtherEnd(f, t, n) == IF t = n THEN f ELSE t
\* lines 218-231: the branches that add the term of bus l to J11 and J33 of bus n,
\* each with the whole element Ym[n, l]
TermBranches(n, l) ==
    {i \in 1..Len(nl) : (nl[i] = n \/ nr[i] = n) /\ OtherEnd(nl[i], nr[i], n) = l}
Connected(n, l) ==
    \E i \in 1..Len(nl) : (nl[i] = n /\ nr[i] = l) \/ (nl[i] = l /\ nr[i] = n)

\* C13: in every iteration and for every bus n, P_k and Q_k hold the term of each
\* neighbouring bus l exactly once (and of no other bus), also when parallel
\* branches connect n and l.
C13_NeighbourTermsOnce ==
    (pc = "newton" /\ iter >= 1) =>
        \A n, l \in 1..nbus :
            Cardinality(TermBranches(n, l)) = IF l # n /\ Connected(n, l) THEN 1 ELSE 0

\* C14: after lfnewton every row of busdata holds the solved Vm and deltad of the
\* bus whose number is in its first column, in whatever order the rows are.
C14_WriteBackByBusNumber ==
    NewtonReturned =>
        \A r \in 1..Len(busdata) :
            /\ busdata[r][3] = Vm[busdata[r][1]]
            /\ busdata[r][4] = deltad[busdata[r][1]]

\* C16: lfnewton raises no false alarm: when it ends with the status text of a run
\* that did not converge, the final maxerror is not below the accuracy.
C16_NoFalseAlarm ==
    (NewtonReturned /\ tech = NotConverged) => maxerror >= Accuracy

(***************************************************************************)
(* Properties of the index maps of lfnewton, checked under SpecIndex.      *)
(***************************************************************************)
\* the buses, by the code's 0-based index, that have a delta and a Vm unknown
NonSlackBuses(k) == {i \in 0..(Len(k) - 1) : k[i + 1] # Slack}
PQBuses(k) == {i \in 0..(Len(k) - 1) : k[i + 1] = PQ}

\* C15: for every assignment of kinds to N buses, nn over the non-slack buses and
\* lm over the PQ buses preserve the order of the buses (so are injective), have
\* disjoint ranges, and together cover exactly 0..m-1, m = 2N - ng - 2ns.
C15_IndexMaps ==
    kb # None =>
        LET nnRange == {NN(kb, i) : i \in NonSlackBuses(kb)}
            lmRange == {LM(kb, i) : i \in PQBuses(kb)}
        IN  /\ \A i, j \in NonSlackBuses(kb) : i < j => NN(kb, i) < NN(kb, j)
            /\ \A i, j \in PQBuses(kb) : i < j => LM(kb, i) < LM(kb, j)
            /\ nnRange \cap lmRange = {}
            /\ nnRange \cup lmRange = 0..(MOf(kb) - 1)

\* C15, its case: the three kinds on three buses, the slack bus not the first
C15_MixedKinds ==
    /\ pc = "newton"
    /\ Len(kb) = 3
    /\ kb[1] = PQ /\ kb[2] = Slack /\ kb[3] \in {PV, PQ}

(***************************************************************************)
(* Properties of dispatch, checked under SpecDispatch.                     *)
(***************************************************************************)
DispatchReturnedSchedule == pc = "idle" /\ lastOp = "dispatch" /\ ret # None
\* a step that is a whole dispatch call: one that returns before the loop
EarlyReturn == pc = "idle" /\ calls' = calls + 1 /\ pc' = "idle"
Infeasible(pdt, lim) ==
    \/ RGt(pdt, RSum([k \in 1..Len(lim) |-> lim[k][2]]))
    \/ RLt(pdt, RSum([k \in 1..Len(lim) |-> lim[k][1]]))

\* C1: a dispatch call with Pdt > sum(Pmax) or Pdt < sum(Pmin) returns without
\* iterating and leaves B, B0, B00, lambda_, Pgg, busdata and Pg as they were, also
\* when B, B0 and B00 were still None.
C1_InfeasibleMutatesNothing ==
    [][(EarlyReturn /\ cost' # None /\ Infeasible(dPdt', mwlimits'))
          => /\ iterp' = iterp
             /\ UNCHANGED <<B, B0, B00, lambda_, Pgg, busdata, Pg>>]_vars

\* C3: when dispatch returns a schedule, every generator still active (w = 1) is
\* within its limits, however the loop ended.
C3_ActiveWithinLimits ==
    DispatchReturnedSchedule =>
        \A k \in 1..Len(cost) :
            wgt[k] = 1 => /\ RLe(mwlimits[k][1], Pgg[k])
                          /\ RLe(Pgg[k], mwlimits[k][2])

\* C4: when dispatch returns (Pgg, lambda, PL), |sum(Pgg) - PL - Pdt| < 0.001.
C4_PowerBalance ==
    DispatchReturnedSchedule =>
        RLt(RAbs(RSub(RSub(RSum(ret[1]), ret[3]), dPdt)), Rat(1, 1000))

\* C9: a call starts its outer iteration from max(beta) of its cost matrix when no
\* earlier call on the instance iterated, and otherwise from the lambda with which
\* the latest call that iterated ended; a call that returns early leaves the stored
\* lambda as it was.
C9_WarmStart ==
    [][/\ (pc = "idle" /\ pc' = "dispatch")
           => lam' = IF lastLam = None THEN Lam(MaxBeta(cost')) ELSE lastLam
       /\ EarlyReturn => lambda_' = lambda_]_vars

\* C9, its case: a call starts from the lambda an earlier call left, which is not
\* max(beta) of its own cost matrix
C9_WarmStarted ==
    /\ pc = "dispatch" /\ iterp = 0
    /\ calls = MaxCalls
    /\ lastLam # None /\ lam = lastLam
    /\ lam # Lam(MaxBeta(cost))

\* C12: within one dispatch call a clamped generator (w = 0) is never made active
\* again, and its Pgg stays at the limit it was moved to, in every later iteration
\* and in the schedule stored and returned.
C12_ClampedStays ==
    [][pc = "dispatch" =>
          \A k \in 1..Len(cost) : wgt[k] = 0 =>
              /\ wgt'[k] = 0
              /\ PggL[k] \in {mwlimits[k][1], mwlimits[k][2]}
              /\ PggL'[k] = PggL[k]
              /\ pc' = "idle" => (Pgg'[k] = PggL[k] /\ ret'[1][k] = PggL[k])]_vars

\* C12, its case: a call that clamped one generator, went on iterating with
\* another, and returned
C12_ClampedAndReturned ==
    /\ DispatchReturnedSchedule
    /\ \E k, j \in 1..Len(cost) :
           /\ wgt[k] = 0 /\ wgt[j] = 1
           /\ Pgg[k] = mwlimits[k][2]
           /\ Pgg[k] # RZero

=============================================================================
